---- MODULE Spec2Model ----
(***************************************************************************)
(* Track reconciliation and presence timing of the face/eye monitor        *)
(* (industry_projects/facedetection/face_analysis.py).                     *)
(*                                                                         *)
(* Wall-clock times (time() floats) are counted in ticks of 1/TicksPerSec  *)
(* second, so that int() truncation to whole seconds is a real conversion. *)
(* Values returned by update_person_timer and accumulated_time are whole   *)
(* seconds; every other timestamp or duration is in ticks.                 *)
(***************************************************************************)
EXTENDS Integers, Sequences, FiniteSets, TLC

VARIABLES
    now,               \* the wall clock, time(), in ticks
    PERSON_TIMERS,     \* module-level dict: person_name -> timer entry
    call,              \* the last update_person_timer call: arguments and return value
    trackableObjects,  \* FaceAnalysis.trackableObjects: objectID -> TrackableObject
    seen_people,       \* FaceAnalysis.seen_people: name -> sightings
    record_people,     \* FaceAnalysis.record_people: name -> time of last recognition
    frame,             \* the inputs of the last get(): tracker objects and eye detections
    found,             \* the last find_face call: similarities and result
    matched,           \* the last match_eye_openness call: arguments and result
    tracker            \* FaceAnalysis.tracker: the SORT tracker, or None

vars == <<now, PERSON_TIMERS, call, trackableObjects, seen_people, record_people, frame, found,
          matched, tracker>>

\* ---------------------------------------------------------------- bounds

\* Clock resolution: ticks per second.
TicksPerSec == 2
\* Horizon of the presence-timer specification, in seconds.
MaxTimerSec == 12

\* ------------------------------------------------------- program constants

RESET_THRESHOLD == 10
\* Python's None (a timestamp that is not set; a dict key that is absent).
None == -1

\* int(x) of a duration of x ticks: whole seconds, truncated toward zero.
py_int(x) == IF x >= 0 THEN x \div TicksPerSec ELSE -((-x) \div TicksPerSec)

\* ------------------------------------------------------------ dict helpers

\* d[k] = v on a dict d.
Put(d, k, v) == [x \in (DOMAIN d) \cup {k} |-> IF x = k THEN v ELSE d[x]]
EmptyDict == [x \in {} |-> 0]

\* ---------------------------------------------------- update_person_timer

\* Python's None passed as a person name, and the names that are falsy.
PyNoneName == "<None>"

Falsy_OnlyNone(person_name) == person_name = PyNoneName

\* not person_name
Falsy(person_name) == person_name \in {"", PyNoneName}

\* The entry written for a new person and on an absence reset.
NewTimer(current_time) ==
    [first_seen |-> current_time, last_seen |-> current_time,
     paused_at |-> None, accumulated_time |-> 0]

ResetNeeded_AtThreshold(entry, current_time) ==
    current_time - entry.last_seen >= RESET_THRESHOLD * TicksPerSec

\* time_since_last_seen > RESET_THRESHOLD
ResetNeeded(entry, current_time) ==
    current_time - entry.last_seen > RESET_THRESHOLD * TicksPerSec

PausedBranch_LastSeenAtPause(entry, current_time) ==
    LET e == IF entry.paused_at = None
             THEN [entry EXCEPT
                     !.accumulated_time =
                         IF @ = None THEN py_int(current_time - entry.first_seen) ELSE @,
                     !.paused_at = current_time]
             ELSE [entry EXCEPT !.last_seen = entry.paused_at]
    IN  [entry |-> e,
         ret |-> IF e.accumulated_time = None THEN 0 ELSE e.accumulated_time]

PausedBranch_ElapsedNow(entry, current_time) ==
    LET e == [entry EXCEPT !.paused_at = IF @ = None THEN current_time ELSE @,
                           !.accumulated_time = py_int(current_time - entry.first_seen)]
    IN  [entry |-> e, ret |-> e.accumulated_time]

\* is_timer_paused: the entry (last_seen already updated) and the value returned.
\* accumulated_time = None stands for the key being absent from the entry.
PausedBranch(entry, current_time) ==
    LET e == IF entry.paused_at = None
             THEN [entry EXCEPT
                     !.accumulated_time =
                         IF @ = None THEN py_int(current_time - entry.first_seen) ELSE @,
                     !.paused_at = current_time]
             ELSE entry
    IN  [entry |-> e,
         ret |-> IF e.accumulated_time = None THEN 0 ELSE e.accumulated_time]

RunningBranch_DoubleShift(entry, current_time) ==
    LET e == IF entry.paused_at # None
             THEN [entry EXCEPT !.first_seen = @ + 2 * (current_time - entry.paused_at),
                                !.paused_at = None]
             ELSE entry
    IN  [entry |-> e, ret |-> py_int(current_time - e.first_seen)]

RunningBranch_NoShift(entry, current_time) ==
    LET e == [entry EXCEPT !.paused_at = None]
    IN  [entry |-> e, ret |-> py_int(current_time - e.first_seen)]

\* not is_timer_paused: the entry (last_seen already updated) and the value returned.
RunningBranch(entry, current_time) ==
    LET e == IF entry.paused_at # None
             THEN [entry EXCEPT !.first_seen = @ + (current_time - entry.paused_at),
                                !.paused_at = None]
             ELSE entry
    IN  [entry |-> e, ret |-> py_int(current_time - e.first_seen)]

\* update_person_timer(person_name, current_time, is_timer_paused) on the dict
\* timers: the dict afterwards, the value returned, and the branch taken.
update_person_timer(timers, person_name, current_time, is_timer_paused) ==
    IF person_name = "unknown" \/ Falsy(person_name)
    THEN [timers |-> timers, ret |-> 0, branch |-> "noop"]
    ELSE IF person_name \in DOMAIN timers
    THEN IF ResetNeeded(timers[person_name], current_time)
         THEN [timers |-> Put(timers, person_name, NewTimer(current_time)),
               ret |-> 0, branch |-> "reset"]
         ELSE LET e == [timers[person_name] EXCEPT !.last_seen = current_time]
                  r == IF is_timer_paused THEN PausedBranch(e, current_time)
                                          ELSE RunningBranch(e, current_time)
              IN  [timers |-> Put(timers, person_name, r.entry), ret |-> r.ret,
                   branch |-> IF is_timer_paused
                              THEN (IF e.paused_at = None THEN "pause" ELSE "paused")
                              ELSE (IF e.paused_at # None THEN "resume" ELSE "running")]
    ELSE [timers |-> Put(timers, person_name, NewTimer(current_time)),
          ret |-> 0, branch |-> "new"]

\* ---------------------------------------------------------------- find_face

\* Similarities (1 - cosine) are counted in units of 1/(100 * SubCent); scores
\* rounded by round(score, 2) are counted in hundredths.
SubCent == 3
\* prepare(rec_thresh=0.4), in hundredths.
REC_THRESH == 40

\* round(score, 2) of a non-negative similarity: the nearest hundredth.
round2(sim) == (2 * sim + SubCent) \div (2 * SubCent)

\* The gallery: entry i of known_people.
PersonName(i) == IF i % 3 = 1 THEN "alice" ELSE IF i % 3 = 2 THEN "bob red" ELSE "carol"
KnownPerson(i) == [name |-> PersonName(i), pinfl |-> i, image_path |-> i]
known_people(n) == [i \in 1..n |-> KnownPerson(i)]

\* find_face returning None.
NoPerson == [name |-> "", score |-> 0, pinfl |-> 0, image_path |-> 0]

\* The loop of find_face over entries i..Len(gallery): best_matches, in gallery
\* order, of the entries whose similarity is above rec_thresh.
RECURSIVE BestMatches(_, _, _)
BestMatches(gallery, sims, i) ==
    IF i > Len(gallery) THEN <<>>
    ELSE LET rest == BestMatches(gallery, sims, i + 1)
         IN  IF sims[i] > REC_THRESH * SubCent
             THEN <<[name |-> gallery[i].name, score |-> round2(sims[i]),
                     pinfl |-> gallery[i].pinfl,
                     image_path |-> gallery[i].image_path]>> \o rest
             ELSE rest

\* list.sort(key=lambda x: -x['score']): a stable sort, descending by score.
RECURSIVE InsertDesc(_, _)
InsertDesc(sorted, m) ==
    IF sorted = <<>> THEN <<m>>
    ELSE IF Head(sorted).score >= m.score
         THEN <<Head(sorted)>> \o InsertDesc(Tail(sorted), m)
         ELSE <<m>> \o sorted
RECURSIVE SortDesc(_)
SortDesc(ms) ==
    IF ms = <<>> THEN <<>>
    ELSE InsertDesc(SortDesc(SubSeq(ms, 1, Len(ms) - 1)), ms[Len(ms)])

\* find_face(embedding); sims[i] is the similarity of the embedding to entry i.
find_face(gallery, sims) ==
    LET best_matches == BestMatches(gallery, sims, 1)
    IN  IF Len(best_matches) = 0 THEN NoPerson ELSE SortDesc(best_matches)[1]

\* ------------------------------------------------------ match_eye_openness

\* max_iou > 0.4, as the fraction IOU_NUM / IOU_DEN.
IOU_NUM == 2
IOU_DEN == 5

Max2(a, b) == IF a >= b THEN a ELSE b
Min2(a, b) == IF a <= b THEN a ELSE b

IouOf_TouchingCounts(bbox, ebox) ==
    LET ix1 == Max2(bbox[1], ebox[1])
        iy1 == Max2(bbox[2], ebox[2])
        ix2 == Min2(bbox[3], ebox[3])
        iy2 == Min2(bbox[4], ebox[4])
        inter_area == (ix2 - ix1) * (iy2 - iy1)
        box_area == (bbox[3] - bbox[1]) * (bbox[4] - bbox[2])
        bbox_area == (ebox[3] - ebox[1]) * (ebox[4] - ebox[2])
    IN  [hit |-> ix1 <= ix2 /\ iy1 <= iy2,
         num |-> inter_area,
         den |-> box_area + bbox_area - inter_area]

\* The body of the loop for one face_data: its IoU with bbox as a fraction, and
\* whether it is appended to ious (the boxes intersect).
IouOf(bbox, ebox) ==
    LET ix1 == Max2(bbox[1], ebox[1])
        iy1 == Max2(bbox[2], ebox[2])
        ix2 == Min2(bbox[3], ebox[3])
        iy2 == Min2(bbox[4], ebox[4])
        inter_area == (ix2 - ix1) * (iy2 - iy1)
        box_area == (bbox[3] - bbox[1]) * (bbox[4] - bbox[2])
        bbox_area == (ebox[3] - ebox[1]) * (ebox[4] - ebox[2])
    IN  [hit |-> ix1 < ix2 /\ iy1 < iy2,
         num |-> inter_area,
         den |-> box_area + bbox_area - inter_area]

\* iou a < iou b, for fractions with positive denominators.
IouLess(a, b) == a.num * b.den < b.num * a.den

\* inter_area / float(box_area + bbox_area - inter_area) divides by zero.
DividesByZero(bbox, ebox) == IouOf(bbox, ebox).hit /\ IouOf(bbox, ebox).den = 0

AcceptMatch_AtThreshold(iou, m) ==
    IF iou[m].num * IOU_DEN >= IOU_NUM * iou[m].den THEN m ELSE 0

\* matched_data = max_iou_tuple[1] if max_iou > 0.4 else None, for the entry m
\* that max() picked: the index of its face_data, 0 for None.
AcceptMatch(iou, m) == IF iou[m].num * IOU_DEN > IOU_NUM * iou[m].den THEN m ELSE 0

BestMatch_LastWins(iou, hits) ==
    IF hits = {} THEN 0
    ELSE AcceptMatch(iou, CHOOSE i \in hits :
                            /\ \A j \in hits : ~IouLess(iou[i], iou[j])
                            /\ \A j \in hits : j > i => IouLess(iou[j], iou[i]))

\* if ious: max(ious, key=lambda x: x[0]), which returns the first of the
\* largest; iou[i] is the IoU of face_data i, hits the indices appended to ious.
BestMatch(iou, hits) ==
    IF hits = {} THEN 0
    ELSE AcceptMatch(iou, CHOOSE i \in hits :
                            /\ \A j \in hits : ~IouLess(iou[i], iou[j])
                            /\ \A j \in hits : j < i => IouLess(iou[j], iou[i]))

\* match_eye_openness(eye_opennesses, bbox): the index in faces_data of the
\* matched face_data, 0 for None.
match_eye_openness(eye_opennesses, bbox) ==
    IF ~eye_opennesses.has_faces_data THEN 0
    ELSE BestMatch([i \in DOMAIN eye_opennesses.faces_data |->
                      IouOf(bbox, eye_opennesses.faces_data[i].bbox)],
                   {i \in DOMAIN eye_opennesses.faces_data :
                      IouOf(bbox, eye_opennesses.faces_data[i].bbox).hit})

\* The indices of the face_data appended to ious.
Candidates(eye_opennesses, bbox) ==
    IF ~eye_opennesses.has_faces_data THEN {}
    ELSE {i \in DOMAIN eye_opennesses.faces_data :
            IouOf(bbox, eye_opennesses.faces_data[i].bbox).hit}

\* The loop reaches a division by zero (the call does not return a match).
MatchRaises(eye_opennesses, bbox) ==
    /\ eye_opennesses.has_faces_data
    /\ \E i \in DOMAIN eye_opennesses.faces_data :
          DividesByZero(bbox, eye_opennesses.faces_data[i].bbox)

\* --------------------------------------------------------- FaceAnalysis.get

\* if cumulative_closed_time >= 3.0, in seconds.
CLOSED_PAUSE_SEC == 3
\* if cur - record_people[name] > 15, in seconds.
SIGHTING_WINDOW == 15

\* TrackableObject(objectID, obj): the fields get() and draw_on() read. The
\* payloads of the external models that no branch reads (kps, age, gender) and
\* lost_count, which is only ever set to 0, are left out.
NewTrackableObject(objectID, bbox) ==
    [objectID |-> objectID, bbox |-> bbox, live |-> FALSE,
     name |-> "unknown", pinfl |-> 0, score |-> 0, image_path |-> 0,
     recognized |-> FALSE,
     left_eye_open |-> "unknown", right_eye_open |-> "unknown",
     cumulative_closed_time |-> 0, timer_paused |-> FALSE,
     last_eye_check_time |-> None]

RecordSighting_NoWindow(seen, rec, name, cur) ==
    <<Put(seen, name, (IF name \in DOMAIN seen THEN seen[name] ELSE 0) + 1),
      Put(rec, name, cur)>>

RecordSighting_RecordOnly(seen, rec, name, cur) ==
    IF name \in DOMAIN rec
    THEN <<IF cur - rec[name] > SIGHTING_WINDOW * TicksPerSec /\ name \in DOMAIN seen
           THEN Put(seen, name, seen[name] + 1) ELSE seen,
           Put(rec, name, cur)>>
    ELSE <<seen, Put(rec, name, cur)>>

\* The sighting bookkeeping of a recognition of name at time cur:
\* <<seen_people, record_people>> afterwards.
RecordSighting(seen, rec, name, cur) ==
    IF name \in DOMAIN rec
    THEN <<IF cur - rec[name] > SIGHTING_WINDOW * TicksPerSec
           THEN Put(seen, name, seen[name] + 1) ELSE seen,
           Put(rec, name, cur)>>
    ELSE <<Put(seen, name, (IF name \in DOMAIN seen THEN seen[name] ELSE 0) + 1),
           Put(rec, name, cur)>>

\* if person: if person['score'] > track_obj.score: ... for the result person
\* of find_face, on the sighting maps seen and rec; then the recognized flag.
Identify(track_obj, person, seen, rec, cur) ==
    IF person # NoPerson /\ person.score > track_obj.score
    THEN [track |-> [track_obj EXCEPT !.name = person.name, !.pinfl = person.pinfl,
                                      !.score = person.score,
                                      !.image_path = person.image_path,
                                      !.recognized = (person.score > 0)],
          sr |-> RecordSighting(seen, rec, person.name, cur)]
    ELSE [track |-> [track_obj EXCEPT !.recognized = (track_obj.score > 0)],
          sr |-> <<seen, rec>>]

Recognize_AlwaysAssign(track_obj, seen, rec, gallery, sims, cur) ==
    LET person == find_face(gallery, sims)
    IN  IF person = NoPerson THEN [track |-> track_obj, sr |-> <<seen, rec>>]
        ELSE [track |-> [track_obj EXCEPT !.name = person.name, !.pinfl = person.pinfl,
                                          !.score = person.score,
                                          !.image_path = person.image_path,
                                          !.recognized = TRUE],
              sr |-> RecordSighting(seen, rec, person.name, cur)]

Recognize_FlagPerFrame(track_obj, seen, rec, gallery, sims, cur) ==
    LET r == IF track_obj.recognized THEN [track |-> track_obj, sr |-> <<seen, rec>>]
             ELSE Identify(track_obj, find_face(gallery, sims), seen, rec, cur)
    IN  [r EXCEPT !.track.recognized = (find_face(gallery, sims) # NoPerson)]

\* if not track_obj.recognized: ...
Recognize(track_obj, seen, rec, gallery, sims, cur) ==
    IF track_obj.recognized THEN [track |-> track_obj, sr |-> <<seen, rec>>]
    ELSE Identify(track_obj, find_face(gallery, sims), seen, rec, cur)

ClosedFrame_RepausesFromElapsed(track_obj, time_elapsed) ==
    [track_obj EXCEPT
       !.cumulative_closed_time = @ + time_elapsed,
       !.timer_paused = (time_elapsed >= CLOSED_PAUSE_SEC * TicksPerSec)]

ClosedFrame_StrictThreshold(track_obj, time_elapsed) ==
    [track_obj EXCEPT
       !.cumulative_closed_time = @ + time_elapsed,
       !.timer_paused = IF track_obj.cumulative_closed_time + time_elapsed
                            > CLOSED_PAUSE_SEC * TicksPerSec
                        THEN TRUE ELSE @]

\* any_eye_closed: cumulative_closed_time += time_elapsed, and the pause once
\* it reaches 3.0 s.
ClosedFrame(track_obj, time_elapsed) ==
    [track_obj EXCEPT
       !.cumulative_closed_time = @ + time_elapsed,
       !.timer_paused = IF track_obj.cumulative_closed_time + time_elapsed
                            >= CLOSED_PAUSE_SEC * TicksPerSec
                        THEN TRUE ELSE @]

OpenFrame_KeepCumulative(track_obj) ==
    [track_obj EXCEPT !.timer_paused = FALSE]

OpenFrame_KeepPause(track_obj) ==
    [track_obj EXCEPT !.cumulative_closed_time = 0]

\* Both eyes open: the timer resumes and the cumulative time restarts.
OpenFrame(track_obj) ==
    [track_obj EXCEPT !.timer_paused = FALSE, !.cumulative_closed_time = 0]

UnmatchedFrame_KeepsEyes(track_obj) == track_obj

UnmatchedFrame_ResetsDebounce(track_obj) ==
    [track_obj EXCEPT !.left_eye_open = "unknown", !.right_eye_open = "unknown",
                      !.cumulative_closed_time = 0, !.timer_paused = FALSE]

\* left_eye_open = right_eye_open = "unknown"; with no matched face_data the
\* rest of the eye part is skipped.
UnmatchedFrame(track_obj) ==
    [track_obj EXCEPT !.left_eye_open = "unknown", !.right_eye_open = "unknown"]

\* if eye_openness_data: ... for the matched face_data.
MatchedFrame(track_obj, face_data, current_time) ==
    LET any_eye_closed == ~face_data.left_eye_open \/ ~face_data.right_eye_open
        last == IF track_obj.last_eye_check_time = None THEN current_time
                ELSE track_obj.last_eye_check_time
        time_elapsed == current_time - last
        t1 == [track_obj EXCEPT
                 !.left_eye_open = IF face_data.left_eye_open THEN "Open" ELSE "Closed",
                 !.right_eye_open = IF face_data.right_eye_open THEN "Open" ELSE "Closed"]
    IN  [(IF any_eye_closed THEN ClosedFrame(t1, time_elapsed) ELSE OpenFrame(t1))
            EXCEPT !.last_eye_check_time = current_time]

\* The eye part of the loop body; eye_openness_data is <<>> for None and
\* <<face_data>> for a match.
EyeDebounce(track_obj, eye_openness_data, current_time) ==
    IF eye_openness_data = <<>> THEN UnmatchedFrame(track_obj)
    ELSE MatchedFrame(UnmatchedFrame(track_obj), eye_openness_data[1], current_time)

\* match_eye_openness's result as <<>> (None) or <<face_data>>.
MatchedData(eye_opennesses, bbox) ==
    LET m == match_eye_openness(eye_opennesses, bbox)
    IN  IF m = 0 THEN <<>> ELSE <<eye_opennesses.faces_data[m]>>

\* The end of the loop body: the eye part on the recognized track r.track,
\* and trackableObjects[objectID] = track_obj.
StoreObject(st, obj, r, eye_openness_data, current_time) ==
    [tracks |-> Put(st.tracks, obj.id, EyeDebounce(r.track, eye_openness_data, current_time)),
     seen |-> r.sr[1], rec |-> r.sr[2]]

ProcessObject_Exclusive(st, obj, eye_opennesses, gallery, current_time) ==
    StoreObject(st, obj,
                Recognize([(IF obj.id \in DOMAIN st.tracks THEN st.tracks[obj.id]
                            ELSE NewTrackableObject(obj.id, obj.bbox))
                             EXCEPT !.bbox = obj.bbox, !.live = TRUE],
                          st.seen, st.rec, gallery, obj.sims, current_time),
                IF \E k \in DOMAIN st.tracks :
                      /\ k # obj.id
                      /\ st.tracks[k].live
                      /\ st.tracks[k].left_eye_open # "unknown"
                      /\ match_eye_openness(eye_opennesses, st.tracks[k].bbox)
                            = match_eye_openness(eye_opennesses, obj.bbox)
                THEN <<>> ELSE MatchedData(eye_opennesses, obj.bbox),
                current_time)

\* The body of "for obj in objects" on st = [tracks, seen, rec].
ProcessObject(st, obj, eye_opennesses, gallery, current_time) ==
    StoreObject(st, obj,
                Recognize([(IF obj.id \in DOMAIN st.tracks THEN st.tracks[obj.id]
                            ELSE NewTrackableObject(obj.id, obj.bbox))
                             EXCEPT !.bbox = obj.bbox, !.live = TRUE],
                          st.seen, st.rec, gallery, obj.sims, current_time),
                MatchedData(eye_opennesses, obj.bbox), current_time)

RECURSIVE ProcessObjects(_, _, _, _, _)
ProcessObjects(st, objs, eye_opennesses, gallery, current_time) ==
    IF objs = <<>> THEN st
    ELSE ProcessObjects(ProcessObject(st, Head(objs), eye_opennesses, gallery,
                                      current_time),
                        Tail(objs), eye_opennesses, gallery, current_time)

\* for track_obj in trackableObjects: track_obj.live = False
MarkNotLive(tracks) == [k \in DOMAIN tracks |-> [tracks[k] EXCEPT !.live = FALSE]]

DeadObjects_None(tracks) == {}

\* dead_objects: the objectIDs whose track is not live.
DeadObjects(tracks) == {k \in DOMAIN tracks : ~tracks[k].live}

\* del trackableObjects[objectID] for every objectID in dead_objects.
RemoveDead(tracks) == [k \in (DOMAIN tracks) \ DeadObjects(tracks) |-> tracks[k]]

Range(seq) == {seq[i] : i \in DOMAIN seq}

\* The time of the last increment of each counter of seen_people, after a pass
\* that leaves the counters seen.
Counted(seen) ==
    [n \in DOMAIN seen |->
        IF n \in DOMAIN seen_people /\ seen[n] = seen_people[n]
        THEN frame.counted[n] ELSE now]

FinishGet_TouchesTimers(st, objs, eye_opennesses) ==
    /\ trackableObjects' = RemoveDead(st.tracks)
    /\ seen_people' = st.seen
    /\ record_people' = st.rec
    /\ frame' = [objs |-> objs, eyes |-> eye_opennesses, made |-> TRUE,
                 dead |-> DeadObjects(st.tracks), counted |-> Counted(st.seen),
                 dets |-> <<>>, faces |-> <<>>, raised |-> FALSE]
    /\ PERSON_TIMERS' = [n \in DOMAIN PERSON_TIMERS |->
                            [PERSON_TIMERS[n] EXCEPT !.last_seen = now]]
    /\ UNCHANGED <<now, call, found, matched, tracker>>

\* The end of get(): the purge, on the state st the loop leaves. frame records
\* the pass: its inputs, the objectIDs deleted (dead), when each sightings
\* counter was last incremented (counted), and the list returned (faces, which
\* nothing is appended to with a tracker).
FinishGet(st, objs, eye_opennesses) ==
    /\ trackableObjects' = RemoveDead(st.tracks)
    /\ seen_people' = st.seen
    /\ record_people' = st.rec
    /\ frame' = [objs |-> objs, eyes |-> eye_opennesses, made |-> TRUE,
                 dead |-> DeadObjects(st.tracks), counted |-> Counted(st.seen),
                 dets |-> <<>>, faces |-> <<>>, raised |-> FALSE]
    /\ UNCHANGED <<now, PERSON_TIMERS, call, found, matched, tracker>>

\* get(img) with tracking: objs is the tracker's output (id, bbox and the
\* similarities of the face's embedding to the gallery), eye_opennesses the
\* eye detector's. Every time() of the pass reads the frame's timestamp.
Get(objs, eye_opennesses, gallery) ==
    FinishGet(ProcessObjects([tracks |-> MarkNotLive(trackableObjects),
                              seen |-> seen_people, rec |-> record_people],
                             objs, eye_opennesses, gallery, now),
              objs, eye_opennesses)

\* self.tracker after __init__(known_people, tracking).
Tracker(tracking) == IF tracking THEN "SORT" ELSE "None"

\* The instance has the attribute trackableObjects: __init__ creates it next
\* to the tracker.
HasRegistry(t) == t = Tracker(TRUE)

\* The Face objects appended for the detections bboxes when there is no tracker.
UntrackedFaces(bboxes) == [i \in DOMAIN bboxes |-> [bbox |-> bboxes[i]]]

\* get(img) without a tracker, the detector returning the boxes bboxes: every
\* detection is appended to faces, the tracker block is skipped, and the purge
\* loop reads self.trackableObjects, an AttributeError on an instance that has
\* no such attribute; nothing is returned then.
GetUntracked(bboxes, eye_opennesses) ==
    /\ tracker = Tracker(FALSE)
    /\ frame' = [objs |-> <<>>, eyes |-> eye_opennesses, made |-> TRUE,
                 dead |-> {}, counted |-> frame.counted, dets |-> bboxes,
                 faces |-> IF HasRegistry(tracker) THEN UntrackedFaces(bboxes) ELSE <<>>,
                 raised |-> ~HasRegistry(tracker)]
    /\ UNCHANGED <<now, PERSON_TIMERS, call, trackableObjects, seen_people,
                   record_people, found, matched, tracker>>

\* ----------------------------------------------------- FaceAnalysis.draw_on

\* 'red' in track_obj.name, and track_obj.name[:track_obj.name.index('red') - 1],
\* on the names of the gallery.
HasRed(name) == name = "bob red"
StripRed(name) == IF name = "bob red" THEN "bob" ELSE name

\* The name the timer of a track is kept under.
TimerName(track_obj) ==
    IF HasRed(track_obj.name) THEN StripRed(track_obj.name) ELSE track_obj.name

\* The call update_person_timer(name, current_time, is_paused) made for
\* track_obj, on st = [timers, call]; r is its result.
TimerCall(st, track_obj, name, r) ==
    [timers |-> r.timers,
     call |-> [name |-> name, paused |-> track_obj.timer_paused,
               ret |-> r.ret, branch |-> r.branch,
               owner |-> Put(st.call.owner, name, track_obj.objectID),
               prev |-> IF name \in DOMAIN st.call.owner THEN st.call.owner[name] ELSE 0]]

DrawTrack_TimerPerTrack(st, track_obj, current_time) ==
    IF ~track_obj.live \/ track_obj.name = "unknown" \/ ~track_obj.recognized THEN st
    ELSE TimerCall(st, track_obj, TimerName(track_obj),
                   update_person_timer(
                       IF /\ TimerName(track_obj) \in DOMAIN st.call.owner
                          /\ st.call.owner[TimerName(track_obj)] # track_obj.objectID
                       THEN [n \in DOMAIN st.timers \ {TimerName(track_obj)} |-> st.timers[n]]
                       ELSE st.timers,
                       TimerName(track_obj), current_time, track_obj.timer_paused))

\* The body of the loop of draw_on for one track: the timer call of a live,
\* recognized track, under its name (without the 'red' suffix).
DrawTrack(st, track_obj, current_time) ==
    IF ~track_obj.live \/ track_obj.name = "unknown" \/ ~track_obj.recognized THEN st
    ELSE TimerCall(st, track_obj, TimerName(track_obj),
                   update_person_timer(st.timers, TimerName(track_obj), current_time,
                                       track_obj.timer_paused))

\* The smallest of a non-empty set of objectIDs.
MinId(ids) == CHOOSE i \in ids : \A j \in ids : i <= j

\* for _, track_obj in trackableObjects.items(): the tracks ids, in the order
\* of their objectIDs (the order they were first stored in, the tracker
\* numbering its tracks upwards).
RECURSIVE DrawTracks(_, _, _)
DrawTracks(st, ids, current_time) ==
    IF ids = {} THEN st
    ELSE DrawTracks(DrawTrack(st, trackableObjects[MinId(ids)], current_time),
                    ids \ {MinId(ids)}, current_time)

FinishDraw(st) ==
    /\ PERSON_TIMERS' = st.timers
    /\ call' = st.call
    /\ UNCHANGED <<now, trackableObjects, seen_people, record_people, frame, found,
                   matched, tracker>>

\* draw_on(img, faces).
DrawOn ==
    FinishDraw(DrawTracks([timers |-> PERSON_TIMERS, call |-> call],
                          DOMAIN trackableObjects, now))

\* ------------------------------------------------------------------ clock

\* time() moves on by step ticks (time never goes back), up to the horizon max.
Tick(step, max) ==
    /\ now + step <= max
    /\ now' = now + step
    /\ UNCHANGED <<PERSON_TIMERS, call, trackableObjects, seen_people, record_people,
                   frame, found, matched, tracker>>

\* ------------------------------------------ presence timer specification

\* call also records, for draw_on, the objectID of the track each identity's
\* last call was made for (owner), and the one before this call (prev, 0 for
\* none).
NoCall == [name |-> "", paused |-> FALSE, ret |-> 0, branch |-> "none",
           owner |-> EmptyDict, prev |-> 0]
NoFrame == [objs |-> <<>>, eyes |-> [has_faces_data |-> FALSE, faces_data |-> <<>>],
            made |-> FALSE, dead |-> {}, counted |-> EmptyDict,
            dets |-> <<>>, faces |-> <<>>, raised |-> FALSE]
NoFound == [sims |-> <<>>, person |-> NoPerson, made |-> FALSE]
NoEyes == [has_faces_data |-> FALSE, faces_data |-> <<>>]
NoMatched == [bbox |-> <<0, 0, 0, 0>>, eyes |-> NoEyes, hits |-> {}, m |-> 0,
              raised |-> FALSE, made |-> FALSE]

\* The names update_person_timer is called with.
RealNames == {"alice"}
CallNames == RealNames \cup {"unknown", "", PyNoneName}

\* One call update_person_timer(person_name, time(), is_timer_paused).
UpdatePersonTimer(person_name, is_timer_paused) ==
    LET r == update_person_timer(PERSON_TIMERS, person_name, now, is_timer_paused)
    IN  /\ PERSON_TIMERS' = r.timers
        /\ call' = [name |-> person_name, paused |-> is_timer_paused,
                    ret |-> r.ret, branch |-> r.branch,
                    owner |-> call.owner, prev |-> 0]
        /\ UNCHANGED <<now, trackableObjects, seen_people, record_people, frame, found,
                       matched, tracker>>

InitTimer ==
    /\ now = 0
    /\ PERSON_TIMERS = EmptyDict
    /\ call = NoCall
    /\ trackableObjects = EmptyDict
    /\ seen_people = EmptyDict
    /\ record_people = EmptyDict
    /\ frame = NoFrame
    /\ found = NoFound
    /\ matched = NoMatched
    /\ tracker = Tracker(TRUE)

TickTimer == Tick(1, MaxTimerSec * TicksPerSec)

CallTimer == \E n \in CallNames, p \in BOOLEAN : UpdatePersonTimer(n, p)

NextTimer == TickTimer \/ CallTimer

SpecTimer == InitTimer /\ [][NextTimer]_vars

\* ------------------------------------------------ presence timer: claims

\* The step is a call of update_person_timer with the arguments call' records.
IsUpdate == call'.branch # "none" /\ UpdatePersonTimer(call'.name, call'.paused)
\* The step is a call for a real identity that has an entry no more than
\* RESET_THRESHOLD seconds old.
IsUpdateKnown ==
    /\ IsUpdate
    /\ call'.name \in RealNames
    /\ call'.name \in DOMAIN PERSON_TIMERS
    /\ now - PERSON_TIMERS[call'.name].last_seen <= RESET_THRESHOLD * TicksPerSec

\* C1: a paused call on a known identity, within the absence gap, whose
\* paused_at is null sets accumulated_time to int(now - first_seen), sets
\* paused_at to now, and returns that accumulated_time.
C1_PauseSnapshotsElapsed ==
    [][(IsUpdateKnown /\ call'.paused /\ PERSON_TIMERS[call'.name].paused_at = None)
        => LET n == call'.name
           IN  /\ PERSON_TIMERS'[n].accumulated_time
                     = py_int(now - PERSON_TIMERS[n].first_seen)
               /\ PERSON_TIMERS'[n].paused_at = now
               /\ call'.ret = py_int(now - PERSON_TIMERS[n].first_seen)]_vars

\* C2: while an identity is paused, paused calls leave first_seen and paused_at
\* alone (so paused_at - first_seen stays the elapsed time at which the pause
\* began); the first unpaused call then moves first_seen forward by
\* now - paused_at, clears paused_at and returns int(paused_at - first_seen),
\* the elapsed value at the start of the pause.
C2_ResumeContinuity ==
    [][(IsUpdateKnown /\ PERSON_TIMERS[call'.name].paused_at # None)
        => LET n == call'.name
               old == PERSON_TIMERS[n]
           IN  IF call'.paused
               THEN /\ PERSON_TIMERS'[n].first_seen = old.first_seen
                    /\ PERSON_TIMERS'[n].paused_at = old.paused_at
               ELSE /\ PERSON_TIMERS'[n].first_seen
                          = old.first_seen + (now - old.paused_at)
                    /\ PERSON_TIMERS'[n].paused_at = None
                    /\ call'.ret = py_int(old.paused_at - old.first_seen)]_vars

\* The state right after a resume of an identity that had been visible for at
\* least a second when its pause began.
C2_Witness ==
    /\ call.branch = "resume"
    /\ call.ret >= 1
    /\ PERSON_TIMERS[call.name].last_seen = now
    /\ PERSON_TIMERS[call.name].paused_at = None
    /\ call.ret = py_int(now - PERSON_TIMERS[call.name].first_seen)

\* C3: consecutive paused calls on the same known identity, with no absence
\* reset in between, return the same value, which is the stored accumulated_time.
C3_PauseFreezes ==
    [][(/\ IsUpdateKnown /\ call'.paused
        /\ call.branch \in {"pause", "paused"} /\ call.name = call'.name)
        => /\ call'.ret = call.ret
           /\ call'.ret = PERSON_TIMERS'[call'.name].accumulated_time]_vars

\* A second paused call, later than the one that began the pause, on an
\* identity that had been visible for at least a second when the pause began.
C3_Witness ==
    /\ call.branch = "paused"
    /\ PERSON_TIMERS[call.name].paused_at < now
    /\ PERSON_TIMERS[call.name].last_seen = now
    /\ PERSON_TIMERS[call.name].paused_at
          >= PERSON_TIMERS[call.name].first_seen + TicksPerSec

\* C4: a call for a real identity with no entry, or whose entry was last seen
\* more than RESET_THRESHOLD seconds ago, writes first_seen = last_seen = now,
\* accumulated_time = 0, paused_at = null and returns 0, whatever is_paused is;
\* a gap of exactly RESET_THRESHOLD seconds does not reset: the entry keeps
\* its first_seen (moved only by a resume) and a running call returns
\* int(now - first_seen).
C4_NewEpisode ==
    [][(IsUpdate /\ call'.name \in RealNames)
        => LET n == call'.name
               gap == now - PERSON_TIMERS[n].last_seen
           IN  /\ (n \notin DOMAIN PERSON_TIMERS \/ gap > RESET_THRESHOLD * TicksPerSec)
                     => /\ PERSON_TIMERS'[n] = [first_seen |-> now, last_seen |-> now,
                                                paused_at |-> None, accumulated_time |-> 0]
                        /\ call'.ret = 0
               /\ (n \in DOMAIN PERSON_TIMERS /\ gap = RESET_THRESHOLD * TicksPerSec)
                     => LET old == PERSON_TIMERS[n]
                            shift == IF ~call'.paused /\ old.paused_at # None
                                     THEN now - old.paused_at ELSE 0
                        IN  /\ PERSON_TIMERS'[n].first_seen = old.first_seen + shift
                            /\ PERSON_TIMERS'[n].last_seen = now
                            /\ ~call'.paused
                                  => call'.ret = py_int(now - old.first_seen - shift)]_vars

\* An absence reset made by a paused call.
C4_Witness ==
    /\ call.branch = "reset"
    /\ call.paused
    /\ PERSON_TIMERS[call.name].first_seen = now
    /\ now > RESET_THRESHOLD * TicksPerSec

\* C18: after a call for a real identity, paused_at is non-null exactly when
\* the call was made with is_paused = true, also when the call is the
\* identity's first sighting or an absence reset.
C18_PausedAtFollowsFlag ==
    [][(IsUpdate /\ call'.name \in RealNames)
        => (call'.paused <=> PERSON_TIMERS'[call'.name].paused_at # None)]_vars

\* C19: a call with the empty name, None or "unknown" returns 0 and leaves the
\* whole timer map as it was, for either value of is_paused.
C19_NoIdentityIsNoop ==
    [][(IsUpdate /\ call'.name \in {"", PyNoneName, "unknown"})
        => (call'.ret = 0 /\ PERSON_TIMERS' = PERSON_TIMERS)]_vars

\* A paused call with the empty name, made while a real identity's timer is
\* running with a second or more on it.
C19_Witness ==
    /\ call.branch = "noop"
    /\ call.name = ""
    /\ call.paused
    /\ DOMAIN PERSON_TIMERS = RealNames
    /\ \A n \in RealNames : /\ PERSON_TIMERS[n].paused_at = None
                            /\ PERSON_TIMERS[n].first_seen + TicksPerSec <= now

\* C25: every timer entry has first_seen <= last_seen after every call, through
\* first sightings, pauses, resumes and absence resets, and every value a call
\* returns is >= 0.
C25_FirstSeenNotAfterLastSeen ==
    /\ \A n \in DOMAIN PERSON_TIMERS :
          PERSON_TIMERS[n].first_seen <= PERSON_TIMERS[n].last_seen
    /\ call.ret >= 0

\* A resume that moved first_seen all the way up to last_seen: the identity
\* was paused from its first instant.
C25_Witness ==
    /\ call.branch = "resume"
    /\ now > 0
    /\ PERSON_TIMERS[call.name].first_seen = now
    /\ PERSON_TIMERS[call.name].last_seen = now
    /\ call.ret = 0

\* C27: a call for an identity whose timer is paused, made no more than 10 s
\* after the previous call, does not reset it and advances last_seen, and a
\* paused call keeps first_seen, paused_at and the frozen count however long
\* ago the pause began; a call made more than 10 s after the previous one
\* resets the entry and returns 0.
C27_PausedKeptAliveByCalls ==
    [][(/\ IsUpdate
        /\ call'.name \in RealNames
        /\ call'.name \in DOMAIN PERSON_TIMERS
        /\ PERSON_TIMERS[call'.name].paused_at # None)
        => LET n == call'.name
           IN  IF now - PERSON_TIMERS[n].last_seen <= 10 * TicksPerSec
               THEN /\ call'.branch # "reset"
                    /\ PERSON_TIMERS'[n].last_seen = now
                    /\ call'.paused =>
                          /\ PERSON_TIMERS'[n].first_seen = PERSON_TIMERS[n].first_seen
                          /\ PERSON_TIMERS'[n].paused_at = PERSON_TIMERS[n].paused_at
                          /\ call'.ret = PERSON_TIMERS[n].accumulated_time
               ELSE /\ PERSON_TIMERS'[n] = NewTimer(now)
                    /\ call'.ret = 0
                    /\ call'.branch = "reset"]_vars

\* A paused call on a timer that has been paused for more than 10 s.
C27_Witness ==
    /\ call.branch = "paused"
    /\ call.name \in DOMAIN PERSON_TIMERS
    /\ PERSON_TIMERS[call.name].paused_at # None
    /\ now - PERSON_TIMERS[call.name].paused_at > 10 * TicksPerSec
    /\ PERSON_TIMERS[call.name].last_seen = now

\* ------------------------------------------- eye debounce specification

\* Horizon of the eye-debounce specification, in seconds.
MaxEyeSec == 4
\* Track ids the tracker hands out in the eye-debounce specification.
MaxEyeTracks == 1

\* Track id's box, and the box of the eye detection of the same face
\* (IoU 9/10 with the track's box, none with any other's).
TrackBox(id) == <<20 * id, 0, 20 * id + 10, 10>>
EyeBox(id) == <<20 * id + 1, 0, 20 * id + 10, 10>>

\* A face no gallery entry matches: every similarity at rec_thresh.
StrangerSims(n) == [i \in 1..n |-> REC_THRESH * SubCent]
FrameGallery == known_people(2)

\* f[i] for the ids i..n of a set, ascending, concatenated.
RECURSIVE ConcatIds(_, _, _, _)
ConcatIds(ids, f, i, n) ==
    IF i > n THEN <<>>
    ELSE (IF i \in ids THEN f[i] ELSE <<>>) \o ConcatIds(ids, f, i + 1, n)

\* What the eye detector reports of one face: nothing, or each eye open or closed.
EyeStates == {<<>>} \cup {<<[left_eye_open |-> l, right_eye_open |-> r]>> : l, r \in BOOLEAN}
SeenOrNot == {<<>>, <<[left_eye_open |-> TRUE, right_eye_open |-> FALSE]>>}

\* The tracker's output for the faces ids among 1..n, in id order.
ObjsOf(ids, n) ==
    ConcatIds(ids, [i \in 1..n |->
                      <<[id |-> i, bbox |-> TrackBox(i), sims |-> StrangerSims(2)]>>], 1, n)

\* The eye detector's output when it reports e[i] of face i.
FacesOf(ids, e, n) ==
    ConcatIds(ids, [i \in ids |->
                      IF e[i] = <<>> THEN <<>>
                      ELSE <<[bbox |-> EyeBox(i), left_eye_open |-> e[i][1].left_eye_open,
                              right_eye_open |-> e[i][1].right_eye_open]>>], 1, n)

\* The frames of faces among 1..n: the tracker confirms any set of them, the eye
\* detector reports one of states of each (or returns no faces_data at all).
Frames(n, states) ==
    UNION {{[objs |-> ObjsOf(ids, n),
             eyes |-> [has_faces_data |-> TRUE, faces_data |-> FacesOf(ids, e, n)]]
              : e \in [ids -> states]}
           \cup {[objs |-> ObjsOf(ids, n),
                   eyes |-> [has_faces_data |-> FALSE, faces_data |-> <<>>]]}
           : ids \in SUBSET (1..n)}

EyeFrames == Frames(MaxEyeTracks, EyeStates)

InitEye == InitTimer

\* Frames arrive on whole seconds.
TickEye == Tick(TicksPerSec, MaxEyeSec * TicksPerSec)

GetEye == \E f \in EyeFrames : Get(f.objs, f.eyes, FrameGallery)

NextEye == TickEye \/ GetEye

SpecEye == InitEye /\ [][NextEye]_vars

\* ---------------------------------------------------- eye debounce: claims

\* The step is a get() pass over the frame that frame' records.
IsGet == frame'.made /\ Get(frame'.objs, frame'.eyes, FrameGallery)

\* The track of obj before the pass: its record, or a new TrackableObject.
Before(obj) ==
    IF obj.id \in DOMAIN trackableObjects THEN trackableObjects[obj.id]
    ELSE NewTrackableObject(obj.id, obj.bbox)

\* P(obj, data, old, new) for every object of the pass, with the eye detection
\* matched to it (<<>> for none) and its track before and after the pass.
ForEachObject(P(_, _, _, _)) ==
    \A o \in Range(frame'.objs) :
        P(o, MatchedData(frame'.eyes, o.bbox), Before(o), trackableObjects'[o.id])

AnyEyeClosed(data) == ~data[1].left_eye_open \/ ~data[1].right_eye_open

C5_Object(o, data, old, new) ==
    (data # <<>> /\ AnyEyeClosed(data))
    => /\ new.cumulative_closed_time
             = old.cumulative_closed_time
               + (IF old.last_eye_check_time = None THEN 0
                  ELSE now - old.last_eye_check_time)
       /\ new.timer_paused
             <=> (new.cumulative_closed_time >= CLOSED_PAUSE_SEC * TicksPerSec)

\* C5: in a pass where a track's matched eye detection has an eye closed,
\* cumulative_closed_time grows by now - last_eye_check_time (by 0 when the
\* track has no last_eye_check_time yet), and afterwards timer_paused is true
\* exactly when cumulative_closed_time >= 3.0 s.
C5_ClosedFrameAccumulates == [][IsGet => ForEachObject(C5_Object)]_vars

\* A track whose closed eyes have just taken it to exactly 3.0 s, paused.
C5_Witness ==
    /\ frame.made
    /\ \E id \in DOMAIN trackableObjects :
          LET t == trackableObjects[id]
          IN  /\ t.left_eye_open = "Closed" \/ t.right_eye_open = "Closed"
              /\ t.last_eye_check_time = now
              /\ t.cumulative_closed_time = CLOSED_PAUSE_SEC * TicksPerSec
              /\ t.timer_paused

C6_Object(o, data, old, new) ==
    (data # <<>> /\ ~AnyEyeClosed(data))
    => (new.cumulative_closed_time = 0 /\ ~new.timer_paused)

\* C6: in a pass where a track's matched eye detection has both eyes open,
\* cumulative_closed_time is 0 and timer_paused is false afterwards, whatever
\* the track's state was.
C6_OpenFrameResets == [][IsGet => ForEachObject(C6_Object)]_vars

\* A track seen with both eyes open at a time by which it can have been paused.
C6_Witness ==
    /\ frame.made
    /\ now > CLOSED_PAUSE_SEC * TicksPerSec
    /\ \E id \in DOMAIN trackableObjects :
          LET t == trackableObjects[id]
          IN  /\ t.left_eye_open = "Open" /\ t.right_eye_open = "Open"
              /\ t.last_eye_check_time = now
              /\ t.cumulative_closed_time = 0 /\ ~t.timer_paused

C7_Object(o, data, old, new) ==
    (data = <<>> /\ old.last_eye_check_time # None)
    => new.last_eye_check_time = now

\* C7: in a pass where a confirmed track that has a last_eye_check_time has
\* no matched eye detection, last_eye_check_time is advanced to now.
C7_UnmatchedAdvancesCheckTime == [][IsGet => ForEachObject(C7_Object)]_vars

C8_Object(o, data, old, new) ==
    data = <<>>
    => /\ new.cumulative_closed_time = old.cumulative_closed_time
       /\ new.timer_paused = old.timer_paused

\* C8: in a pass where a confirmed track has no matched eye detection,
\* cumulative_closed_time and timer_paused are what they were.
C8_UnmatchedKeepsDebounce == [][IsGet => ForEachObject(C8_Object)]_vars

\* A paused track after a pass that found no eye detection for it.
C8_Witness ==
    /\ frame.made
    /\ \E o \in Range(frame.objs) :
          /\ MatchedData(frame.eyes, o.bbox) = <<>>
          /\ trackableObjects[o.id].left_eye_open = "unknown"
          /\ trackableObjects[o.id].timer_paused
          /\ trackableObjects[o.id].cumulative_closed_time > 0
          /\ trackableObjects[o.id].last_eye_check_time < now

C22_Object(o, data, old, new) ==
    /\ (new.left_eye_open = "unknown" /\ new.right_eye_open = "unknown") <=> (data = <<>>)
    /\ new.objectID = o.id /\ new.bbox = o.bbox /\ new.live

\* C22: after a pass a confirmed track's eye states are both Unknown iff no
\* eye detection matched it in this frame, whatever they were before, and its
\* record is stored with the frame's box, live.
C22_UnknownIffUnmatched == [][IsGet => ForEachObject(C22_Object)]_vars

\* A track that had closed eyes counted against it, after a pass that found no
\* eye detection for it, its timer still running.
C22_Witness ==
    /\ frame.made
    /\ \E o \in Range(frame.objs) :
          /\ MatchedData(frame.eyes, o.bbox) = <<>>
          /\ trackableObjects[o.id].left_eye_open = "unknown"
          /\ trackableObjects[o.id].right_eye_open = "unknown"
          /\ trackableObjects[o.id].cumulative_closed_time > 0
          /\ ~trackableObjects[o.id].timer_paused
          /\ trackableObjects[o.id].live

\* The debounce states of a track record.
IsOpen(t) == t.cumulative_closed_time = 0 /\ ~t.timer_paused
IsAccumulating(t) ==
    /\ 0 < t.cumulative_closed_time
    /\ t.cumulative_closed_time < 3 * TicksPerSec
    /\ ~t.timer_paused
IsPaused(t) == t.timer_paused

\* C23: every track record is in exactly one of the states Open, Accumulating
\* and Paused: cumulative_closed_time >= 0, and timer_paused is true exactly
\* when cumulative_closed_time >= 3.0 s.
C23_DebounceStates ==
    \A k \in DOMAIN trackableObjects :
        LET t == trackableObjects[k]
        IN  /\ t.cumulative_closed_time >= 0
            /\ t.timer_paused => t.cumulative_closed_time >= 3 * TicksPerSec
            /\ t.cumulative_closed_time >= 3 * TicksPerSec => t.timer_paused
            /\ Cardinality({i \in 1..3 : <<IsOpen(t), IsAccumulating(t), IsPaused(t)>>[i]}) = 1

\* A track that is Accumulating, a second short of the pause.
C23_Witness ==
    \E k \in DOMAIN trackableObjects :
        /\ IsAccumulating(trackableObjects[k])
        /\ trackableObjects[k].cumulative_closed_time = 2 * TicksPerSec
        /\ trackableObjects[k].left_eye_open = "Closed"

C24_Object(o, data, old, new) ==
    /\ (old.timer_paused /\ (data = <<>> \/ AnyEyeClosed(data))) => new.timer_paused
    /\ (old.timer_paused /\ ~new.timer_paused)
          => (data # <<>> /\ data[1].left_eye_open /\ data[1].right_eye_open)

\* C24: a track whose timer_paused is true keeps it through every pass with a
\* closed eye and every pass with no matched eye detection; it becomes false
\* only in a pass whose matched detection reports both eyes open.
C24_PausedLeftByOpenFrame == [][IsGet => ForEachObject(C24_Object)]_vars

\* A paused track after a further closed-eye frame, past the 3.0 s.
C24_Witness ==
    /\ frame.made
    /\ \E k \in DOMAIN trackableObjects :
          /\ trackableObjects[k].timer_paused
          /\ trackableObjects[k].right_eye_open = "Closed"
          /\ trackableObjects[k].last_eye_check_time = now
          /\ trackableObjects[k].cumulative_closed_time > 3 * TicksPerSec

\* ------------------------------------------------ track purge specification

\* Track ids the tracker hands out in the purge specification.
MaxPurgeTracks == 3

PurgeFrames == Frames(MaxPurgeTracks, SeenOrNot)

InitPurge == InitTimer

GetPurge == \E f \in PurgeFrames : Get(f.objs, f.eyes, FrameGallery)

NextPurge == GetPurge

SpecPurge == InitPurge /\ [][NextPurge]_vars

\* C9: after a get() pass the registry holds exactly the track ids the tracker
\* confirmed in that frame, one record each under its own id, every one live;
\* the records that were not confirmed are the ones deleted.
C9_RegistryIsConfirmedSet ==
    [][IsGet =>
        LET confirmed == {o.id : o \in Range(frame'.objs)}
        IN  /\ DOMAIN trackableObjects' = confirmed
            /\ \A id \in confirmed : /\ trackableObjects'[id].live
                                      /\ trackableObjects'[id].objectID = id
            /\ frame'.dead = (DOMAIN trackableObjects) \ confirmed]_vars

\* A pass that deleted one record and kept another.
C9_Witness ==
    /\ frame.made
    /\ frame.dead # {}
    /\ DOMAIN trackableObjects # {}
    /\ frame.dead \cap DOMAIN trackableObjects = {}

\* ---------------------------------------------------- find_face specification

\* Largest gallery of the find_face specification.
MaxGallery == 3
\* The similarities tried run from just below rec_thresh to SimSpan units above.
SimSpan == 5

SimLevels == (REC_THRESH * SubCent - 1) .. (REC_THRESH * SubCent + SimSpan)

\* An embedding with any similarities to a gallery of 0..MaxGallery people.
InitFind ==
    /\ now = 0
    /\ PERSON_TIMERS = EmptyDict
    /\ call = NoCall
    /\ trackableObjects = EmptyDict
    /\ seen_people = EmptyDict
    /\ record_people = EmptyDict
    /\ frame = NoFrame
    /\ matched = NoMatched
    /\ tracker = Tracker(TRUE)
    /\ \E n \in 0..MaxGallery : \E sims \in [1..n -> SimLevels] :
          found = [sims |-> sims, person |-> NoPerson, made |-> FALSE]

\* One call find_face(embedding).
FindFace ==
    /\ ~found.made
    /\ found' = [found EXCEPT
                   !.person = find_face(known_people(Len(found.sims)), found.sims),
                   !.made = TRUE]
    /\ UNCHANGED <<now, PERSON_TIMERS, call, trackableObjects, seen_people,
                   record_people, frame, matched, tracker>>

NextFind == FindFace

SpecFind == InitFind /\ [][NextFind]_vars

\* Gallery entry i qualifies: its similarity is above rec_thresh.
Qualifies(i) == found.sims[i] > REC_THRESH * SubCent

\* C10: find_face returns None iff no entry qualifies; otherwise it returns
\* the qualifying entry of maximum similarity, the first in gallery order
\* among those of equal similarity.
C10_FindFaceReturnsMaximum ==
    found.made =>
        LET q == {i \in DOMAIN found.sims : Qualifies(i)}
        IN  /\ (found.person = NoPerson) <=> (q = {})
            /\ q # {} =>
                  \E i \in q :
                      /\ found.person.pinfl = i
                      /\ found.person.name = PersonName(i)
                      /\ \A j \in q : found.sims[j] <= found.sims[i]
                      /\ \A j \in q : found.sims[j] = found.sims[i] => i <= j

\* ------------------------------------------ match_eye_openness specification

\* Largest right edge of an eye detection's box.
MaxX == 3
\* Most face_data the eye detector returns for one image.
MaxDetections == 2

\* The track boxes tried: well-formed ones, one of zero width, one inverted.
MatchTrackBoxes ==
    {<<0, 0, 3, 1>>, <<0, 0, 3, 2>>, <<0, 0, 2, 2>>, <<1, 0, 1, 1>>, <<3, 0, 0, 1>>}

\* The eye detections' boxes: every box with its top at 0, among them boxes of
\* zero width (x1 = x2), of zero height (y2 = 0) and inverted ones (x1 > x2).
MatchEyeBoxes == {<<x1, 0, x2, y2>> : x1 \in 0..2, x2 \in 0..MaxX, y2 \in 0..2}

FaceData(ebox) == [bbox |-> ebox, left_eye_open |-> TRUE, right_eye_open |-> FALSE]

\* What the eye detector returns when it finds faces with the boxes b.
EyesOf(b) == [has_faces_data |-> TRUE, faces_data |-> [i \in DOMAIN b |-> FaceData(b[i])]]

\* One call match_eye_openness(eye_opennesses, bbox).
MatchEyeOpenness(eye_opennesses, bbox) ==
    /\ matched' = [bbox |-> bbox, eyes |-> eye_opennesses,
                   hits |-> Candidates(eye_opennesses, bbox),
                   m |-> IF MatchRaises(eye_opennesses, bbox) THEN 0
                         ELSE match_eye_openness(eye_opennesses, bbox),
                   raised |-> MatchRaises(eye_opennesses, bbox),
                   made |-> TRUE]
    /\ UNCHANGED <<now, PERSON_TIMERS, call, trackableObjects, seen_people,
                   record_people, frame, found, tracker>>

InitMatch == InitTimer

\* A call with what the eye detector returned: None, or up to MaxDetections
\* face_data.
CallMatch ==
    /\ ~matched.made
    /\ \E bbox \in MatchTrackBoxes :
          \/ MatchEyeOpenness(NoEyes, bbox)
          \/ \E n \in 0..MaxDetections : \E b \in [1..n -> MatchEyeBoxes] :
                MatchEyeOpenness(EyesOf(b), bbox)

NextMatch == CallMatch

SpecMatch == InitMatch /\ [][NextMatch]_vars

\* -------------------------------------------- match_eye_openness: claims

\* The area two boxes share, and the area of a box.
Overlap(a, b) ==
    Max2(0, Min2(a[3], b[3]) - Max2(a[1], b[1]))
        * Max2(0, Min2(a[4], b[4]) - Max2(a[2], b[2]))
Area(b) == (b[3] - b[1]) * (b[4] - b[2])
UnionArea(a, b) == Area(a) + Area(b) - Overlap(a, b)

\* The box of detection i of the last call, and its overlap and union with
\* the track's box.
DetBox(i) == matched.eyes.faces_data[i].bbox
Ov(i) == Overlap(matched.bbox, DetBox(i))
Un(i) == UnionArea(matched.bbox, DetBox(i))
Detections == DOMAIN matched.eyes.faces_data
Intersecting == {i \in Detections : Ov(i) > 0}

\* C13: match_eye_openness returns a detection iff some detection's IoU with
\* the track's box is strictly greater than 0.4, and the detection returned
\* is one of maximum IoU; with the maximum at exactly 0.4, or no intersecting
\* detection, it returns none.
C13_StrictIouThreshold ==
    matched.made =>
        /\ (matched.m # 0) <=> (\E i \in Intersecting : 5 * Ov(i) > 2 * Un(i))
        /\ matched.m # 0 =>
              /\ matched.m \in Intersecting
              /\ 5 * Ov(matched.m) > 2 * Un(matched.m)
              /\ \A j \in Intersecting :
                    Ov(j) * Un(matched.m) <= Ov(matched.m) * Un(j)

\* A call whose best detection has IoU exactly 0.4 with the track's box.
C13_Witness ==
    /\ matched.made
    /\ matched.m = 0
    /\ \E i \in Intersecting : 5 * Ov(i) = 2 * Un(i)
    /\ \A i \in Intersecting : 5 * Ov(i) <= 2 * Un(i)

\* C14: the detection returned is the first, in the order of the detector's
\* list, of those with the maximum IoU: no earlier detection has an IoU as
\* large.
C14_FirstOfMaximumWins ==
    (matched.made /\ matched.m # 0) =>
        \A j \in Intersecting :
            j < matched.m => Ov(j) * Un(matched.m) < Ov(matched.m) * Un(j)

\* Two different detections with the same, maximum IoU; the first is returned.
C14_Witness ==
    /\ matched.made
    /\ matched.m = 1
    /\ Len(matched.eyes.faces_data) >= 2
    /\ DetBox(2) # DetBox(1)
    /\ 2 \in Intersecting
    /\ Ov(2) * Un(1) = Ov(1) * Un(2)

\* C16: no call divides by zero, whatever the boxes, and a detection is no
\* IoU candidate when its box or the track's has zero area.
C16_DegenerateBoxes ==
    matched.made =>
        /\ ~matched.raised
        /\ \A i \in Detections :
              (Area(matched.bbox) = 0 \/ Area(DetBox(i)) = 0) => i \notin matched.hits

\* A call with a zero-area detection lying on the track's well-formed box,
\* and another detection that is matched.
C16_Witness ==
    /\ matched.made
    /\ ~matched.raised
    /\ matched.m # 0
    /\ Area(matched.bbox) > 0
    /\ \E i \in Detections :
          /\ Area(DetBox(i)) = 0
          /\ DetBox(i)[1] > matched.bbox[1] /\ DetBox(i)[3] < matched.bbox[3]
          /\ DetBox(i)[4] = matched.bbox[4]

\* ------------------------------------------------- identity specification

\* Horizon of the identity specification, in seconds.
MaxIdSec == 2
\* Track ids the tracker hands out in the identity specification.
MaxIdTracks == 1

\* The similarities of a face to the two people of FrameGallery, from frame to
\* frame: a stranger's, alice's at scores 0.41 and 0.42, bob's at 0.43.
FaceSims ==
    {StrangerSims(2),
     <<REC_THRESH * SubCent + 2, REC_THRESH * SubCent>>,
     <<REC_THRESH * SubCent + 6, REC_THRESH * SubCent>>,
     <<REC_THRESH * SubCent, REC_THRESH * SubCent + 9>>}

\* The tracker's output for the faces ids among 1..n, in id order, face i with
\* the similarities sims[i].
ObjsWith(ids, sims, n) ==
    ConcatIds(ids, [i \in ids |-> <<[id |-> i, bbox |-> TrackBox(i), sims |-> sims[i]]>>],
              1, n)

InitId == InitTimer

TickId == Tick(TicksPerSec, MaxIdSec * TicksPerSec)

\* A frame of any of the faces, each looking like anyone of FaceSims; the eye
\* detector returns nothing.
GetId ==
    \E ids \in SUBSET (1..MaxIdTracks) : \E sims \in [ids -> FaceSims] :
        Get(ObjsWith(ids, sims, MaxIdTracks), NoEyes, FrameGallery)

NextId == TickId \/ GetId

SpecId == InitId /\ [][NextId]_vars

\* ------------------------------------------------------- identity: claims

\* A track's stored identity.
IdentityOf(t) == <<t.name, t.pinfl, t.score, t.image_path>>
\* The recognition result of face o in its frame.
ResultOf(o) == find_face(FrameGallery, o.sims)

C11_Object(o, data, old, new) ==
    /\ IdentityOf(new) # IdentityOf(old)
          => (ResultOf(o) # NoPerson /\ ResultOf(o).score > old.score)
    /\ (ResultOf(o) # NoPerson /\ ResultOf(o).score <= old.score)
          => IdentityOf(new) = IdentityOf(old)
    /\ new.score >= old.score

\* C11: in every pass a track's stored identity (name, pinfl, score,
\* image_path) changes only if the frame's recognition result has a score
\* strictly greater than the stored one; a result with a score not greater
\* leaves it as it was, and the stored score never decreases.
C11_IdentityMonotonic == [][IsGet => ForEachObject(C11_Object)]_vars

\* A track that holds an identity after a pass whose recognition result was
\* another person with a lower score.
C11_Witness ==
    /\ frame.made
    /\ \E o \in Range(frame.objs) :
          /\ ResultOf(o) # NoPerson
          /\ ResultOf(o).score < trackableObjects[o.id].score
          /\ ResultOf(o).name # trackableObjects[o.id].name

C12_Object(o, data, old, new) ==
    (old.score > 0 /\ ResultOf(o) # NoPerson /\ ResultOf(o).score > old.score)
    => IdentityOf(new) = <<ResultOf(o).name, ResultOf(o).pinfl, ResultOf(o).score,
                           ResultOf(o).image_path>>

\* C12: in a pass where a track that already holds an identity with score S
\* has a face resolving to a gallery entry with a score greater than S, the
\* stored identity becomes that entry.
C12_IdentityUpgrades == [][IsGet => ForEachObject(C12_Object)]_vars

C21_Object(o, data, old, new) ==
    /\ old.recognized => new.recognized
    /\ (~old.recognized /\ new.recognized) => new.score > 0

\* C21: a record that is recognized before a pass is recognized after it, and
\* a record becomes recognized only in a pass after which its stored score is
\* greater than 0.
C21_RecognizedMonotonic == [][IsGet => ForEachObject(C21_Object)]_vars

\* A recognized track after a pass in which its face resolved to nobody.
C21_Witness ==
    /\ frame.made
    /\ \E o \in Range(frame.objs) :
          /\ ResultOf(o) = NoPerson
          /\ trackableObjects[o.id].recognized
          /\ trackableObjects[o.id].score > 0

\* C28: seen_people and record_people have the same keys, every count is at
\* least 1, and the name of every track named by recognition is a key of
\* seen_people.
C28_SightingMapsConsistent ==
    /\ DOMAIN seen_people = DOMAIN record_people
    /\ \A n \in DOMAIN seen_people : seen_people[n] >= 1
    /\ \A k \in DOMAIN trackableObjects :
          trackableObjects[k].name # "unknown"
          => trackableObjects[k].name \in DOMAIN seen_people

\* Two identities have been sighted, and a track carries the name of one.
C28_Witness ==
    /\ Cardinality(DOMAIN seen_people) = 2
    /\ \E k \in DOMAIN trackableObjects : trackableObjects[k].name \in DOMAIN seen_people

\* ------------------------------------------- nearby faces specification

\* Track ids the tracker hands out in the nearby-faces specification.
MaxNearTracks == 3

\* Faces standing close together: track id's box, two to the right of track
\* id - 1's, and the box of the one face the eye detector reports (IoU above
\* 1/2 with the box of each of the first three tracks).
NearBox(id) == <<2 * id, 0, 2 * id + 10, 10>>
NearEyeBox == <<3, 0, 13, 10>>

NearObjs(ids) ==
    ConcatIds(ids, [i \in ids |-> <<[id |-> i, bbox |-> NearBox(i),
                                     sims |-> StrangerSims(2)]>>], 1, MaxNearTracks)

\* What the eye detector returns: None, no face, or one face in any eye state.
NearEyes ==
    {NoEyes, EyesOf(<<>>)}
    \cup {[has_faces_data |-> TRUE,
            faces_data |-> <<[bbox |-> NearEyeBox, left_eye_open |-> l,
                              right_eye_open |-> r]>>] : l, r \in BOOLEAN}

InitNear == InitTimer

GetNear ==
    \E ids \in SUBSET (1..MaxNearTracks), e \in NearEyes :
        Get(NearObjs(ids), e, FrameGallery)

NextNear == GetNear

SpecNear == InitNear /\ [][NextNear]_vars

\* C15: in a pass no eye detection is assigned to two tracks: of the tracks
\* whose best detection is the same one, at most one takes its eye states and
\* the others are left Unknown.
C15_OneTrackPerDetection ==
    [][IsGet =>
        \A d \in DOMAIN frame'.eyes.faces_data :
            Cardinality({o \in Range(frame'.objs) :
                           /\ match_eye_openness(frame'.eyes, o.bbox) = d
                           /\ trackableObjects'[o.id].left_eye_open # "unknown"}) <= 1]_vars


OpenOrClosed(open) == IF open THEN "Open" ELSE "Closed"

C15_Object(o, data, old, new) ==
    IF data = <<>>
    THEN new.left_eye_open = "unknown" /\ new.right_eye_open = "unknown"
    ELSE /\ new.left_eye_open = OpenOrClosed(data[1].left_eye_open)
         /\ new.right_eye_open = OpenOrClosed(data[1].right_eye_open)

\* C15, amended: every track is matched on its own: a track whose best
\* detection has an IoU above 0.4 takes that detection's eye states, whether
\* or not another track of the pass takes the same detection, and a track
\* with no such detection is Unknown.
C15_EachTrackMatchedAlone == [][IsGet => ForEachObject(C15_Object)]_vars

\* Two tracks that have taken the eye states of the one detection of the pass.
C15_Witness ==
    /\ frame.made
    /\ Len(frame.eyes.faces_data) = 1
    /\ \E i, j \in DOMAIN trackableObjects :
          /\ i # j
          /\ trackableObjects[i].left_eye_open = "Closed"
          /\ trackableObjects[j].left_eye_open = "Closed"
          /\ trackableObjects[i].bbox # trackableObjects[j].bbox

\* ------------------------------------------------- sightings specification

\* Horizon of the sightings specification, in seconds.
MaxSightSec == 17
\* Track ids the tracker hands out in the sightings specification.
MaxSightTracks == 1

\* A face is a stranger's or alice's.
SightSims == {StrangerSims(2), <<REC_THRESH * SubCent + 6, REC_THRESH * SubCent>>}

InitSight == InitTimer

\* Frames arrive on whole seconds.
TickSight == Tick(TicksPerSec, MaxSightSec * TicksPerSec)

GetSight ==
    \E ids \in SUBSET (1..MaxSightTracks) : \E sims \in [ids -> SightSims] :
        Get(ObjsWith(ids, sims, MaxSightTracks), NoEyes, FrameGallery)

NextSight == TickSight \/ GetSight

SpecSight == InitSight /\ [][NextSight]_vars

\* The names whose sightings counter the step increments.
Incremented ==
    {n \in DOMAIN seen_people' : n \notin DOMAIN seen_people \/ seen_people'[n] # seen_people[n]}

\* C17: a pass increments an identity's sightings counter by one and only if
\* more than 15 s have passed since its last increment; the first recognition
\* of an identity sets its counter to 1.
C17_OneSightingPerWindow ==
    [][IsGet =>
        /\ \A n \in Incremented :
              IF n \in DOMAIN seen_people
              THEN /\ seen_people'[n] = seen_people[n] + 1
                   /\ now - frame.counted[n] > 15 * TicksPerSec
              ELSE seen_people'[n] = 1
        /\ \A o \in Range(frame'.objs) :
              (trackableObjects'[o.id].name # "unknown"
               /\ trackableObjects'[o.id].name \notin DOMAIN record_people)
              => seen_people'[trackableObjects'[o.id].name] = 1]_vars

\* The second sighting of an identity has just been counted, more than 16 s
\* into the run.
C17_Witness ==
    /\ frame.made
    /\ \E n \in DOMAIN seen_people :
          /\ seen_people[n] = 2
          /\ frame.counted[n] = now
          /\ record_people[n] = now
          /\ now > 16 * TicksPerSec

\* ---------------------------------------------------- render specification

\* Frames of the render specification: one every RESET_THRESHOLD / 2 seconds.
MaxRenderSteps == 3
\* Track ids the tracker hands out in the render specification.
MaxRenderTracks == 2

\* Every face is alice's.
AliceSims == <<REC_THRESH * SubCent + 6, REC_THRESH * SubCent>>

InitRender == InitTimer

TickRender ==
    Tick((RESET_THRESHOLD \div 2) * TicksPerSec,
         MaxRenderSteps * (RESET_THRESHOLD \div 2) * TicksPerSec)

\* The tracker numbers its tracks upwards: an objectID it confirms for the
\* first time is larger than every objectID of the registry. The eye detector
\* returns nothing.
GetRender ==
    \E ids \in SUBSET (1..MaxRenderTracks) :
        /\ \A i \in ids \ DOMAIN trackableObjects :
              \A k \in DOMAIN trackableObjects : i > k
        /\ Get(ObjsWith(ids, [i \in ids |-> AliceSims], MaxRenderTracks), NoEyes,
               FrameGallery)

NextRender == TickRender \/ GetRender \/ DrawOn

SpecRender == InitRender /\ [][NextRender]_vars

\* --------------------------------------------------------- render: claims

\* The step is a draw_on pass.
IsDraw == DrawOn

\* The tracks draw_on makes a timer call for.
Drawn == {k \in DOMAIN trackableObjects :
            /\ trackableObjects[k].live
            /\ trackableObjects[k].recognized
            /\ trackableObjects[k].name # "unknown"}

\* C20: when draw_on makes the timer call of a track for an identity whose
\* last call was made for another track, since purged, no more than 10 s ago,
\* the timer goes on from the first_seen it has (moved only by the length of
\* a pause that ends) and is not restarted: an unpaused call returns
\* int(now - first_seen).
C20_TimerFollowsIdentity ==
    [][IsDraw =>
        \A k \in Drawn :
            LET n == TimerName(trackableObjects[k])
            IN  (/\ n \in DOMAIN PERSON_TIMERS
                 /\ n \in DOMAIN call.owner
                 /\ call.owner[n] # k
                 /\ call.owner[n] \notin DOMAIN trackableObjects
                 /\ now - PERSON_TIMERS[n].last_seen <= 10 * TicksPerSec)
                => /\ PERSON_TIMERS'[n].first_seen
                         \in {PERSON_TIMERS[n].first_seen}
                             \cup (IF PERSON_TIMERS[n].paused_at = None THEN {}
                                   ELSE {PERSON_TIMERS[n].first_seen
                                           + (now - PERSON_TIMERS[n].paused_at)})
                   /\ PERSON_TIMERS'[n].last_seen = now
                   /\ (call'.name = n /\ ~call'.paused)
                         => call'.ret = py_int(now - PERSON_TIMERS'[n].first_seen)]_vars

\* The first timer call of a track for an identity whose timer was last
\* advanced, 10 s ago, for a track that has been purged since: the time shown
\* goes on from the first track's first_seen.
C20_Witness ==
    /\ call.branch = "running"
    /\ call.prev # 0
    /\ call.prev \notin DOMAIN trackableObjects
    /\ call.owner[call.name] \in DOMAIN trackableObjects
    /\ call.owner[call.name] # call.prev
    /\ PERSON_TIMERS[call.name].last_seen = now
    /\ call.ret >= 10
    /\ call.ret = py_int(now - PERSON_TIMERS[call.name].first_seen)

\* The timer entries a step creates or changes.
TimersTouched ==
    {n \in DOMAIN PERSON_TIMERS' :
        n \notin DOMAIN PERSON_TIMERS \/ PERSON_TIMERS'[n] # PERSON_TIMERS[n]}

\* C29: a get pass leaves the timer map as it was; a timer entry is created or
\* changed only by a draw_on pass, and only under the name of a live,
\* recognized track, so the time between two draw_on passes counts toward the
\* 10 s absence gap whatever get passes were made in between.
C29_TimersOnlyFromDrawOn ==
    [][/\ IsGet => PERSON_TIMERS' = PERSON_TIMERS
       /\ TimersTouched # {} => IsDraw
       /\ TimersTouched \subseteq {TimerName(trackableObjects[k]) : k \in Drawn}
       /\ DOMAIN PERSON_TIMERS \subseteq DOMAIN PERSON_TIMERS']_vars

\* An absence reset by a draw_on pass although a get pass identified a track
\* of the identity between this pass and the one before it.
C29_Witness ==
    /\ call.branch = "reset"
    /\ call.name \in DOMAIN record_people
    /\ 0 < record_people[call.name]
    /\ record_people[call.name] < now
    /\ PERSON_TIMERS[call.name].first_seen = now

\* ------------------------------------------- render order specification

\* Frames of the render-order specification: one every CLOSED_PAUSE_SEC seconds.
MaxOrderSteps == 2
\* Track ids the tracker hands out in the render-order specification.
MaxOrderTracks == 2

\* What the eye detector reports of a face: both eyes closed, or both open.
OrderEyes == {<<[left_eye_open |-> b, right_eye_open |-> b]>> : b \in BOOLEAN}

InitOrder == InitTimer

TickOrder ==
    Tick(CLOSED_PAUSE_SEC * TicksPerSec, MaxOrderSteps * CLOSED_PAUSE_SEC * TicksPerSec)

\* Every face is alice's; the tracker numbers its tracks upwards, and the eye
\* detector reports the eyes of every face.
GetOrder ==
    \E ids \in SUBSET (1..MaxOrderTracks) : \E e \in [ids -> OrderEyes] :
        /\ \A i \in ids \ DOMAIN trackableObjects :
              \A k \in DOMAIN trackableObjects : i > k
        /\ Get(ObjsWith(ids, [i \in ids |-> AliceSims], MaxOrderTracks),
               [has_faces_data |-> TRUE, faces_data |-> FacesOf(ids, e, MaxOrderTracks)],
               FrameGallery)

NextOrder == TickOrder \/ GetOrder \/ DrawOn

SpecOrder == InitOrder /\ [][NextOrder]_vars

\* --------------------------------------------------- render order: claims

\* The largest of a non-empty set of objectIDs.
MaxId(ids) == CHOOSE i \in ids : \A j \in ids : i >= j

\* The loop of draw_on going through the tracks ids in the opposite order.
RECURSIVE DrawTracksBackwards(_, _, _)
DrawTracksBackwards(st, ids, current_time) ==
    IF ids = {} THEN st
    ELSE DrawTracksBackwards(DrawTrack(st, trackableObjects[MaxId(ids)], current_time),
                             ids \ {MaxId(ids)}, current_time)

\* C26: the timer map a draw_on pass leaves is the one it would leave going
\* through the tracks in the opposite order, also when two live tracks of one
\* identity differ in timer_paused.
C26_OrderIndependent ==
    [][IsDraw =>
        PERSON_TIMERS' = DrawTracksBackwards([timers |-> PERSON_TIMERS, call |-> call],
                                             DOMAIN trackableObjects, now).timers]_vars

\* --------------------------------------------- no-tracker specification

\* Horizon of the no-tracker specification, in seconds.
MaxPlainSec == 4
\* Faces in front of the camera, and detections in one frame.
MaxPlainFaces == 3
MaxPlainDetections == 2

\* FaceAnalysis(known_people, tracking=False): no tracker and no registry
\* (trackableObjects stands for an attribute the instance does not have).
InitPlain ==
    /\ now = 0
    /\ PERSON_TIMERS = EmptyDict
    /\ call = NoCall
    /\ trackableObjects = EmptyDict
    /\ seen_people = EmptyDict
    /\ record_people = EmptyDict
    /\ frame = NoFrame
    /\ found = NoFound
    /\ matched = NoMatched
    /\ tracker = Tracker(FALSE)

TickPlain == Tick(1, MaxPlainSec * TicksPerSec)

\* A frame with up to MaxPlainDetections detections, each of any of the faces;
\* the eye detector returns nothing.
GetPlain ==
    \E n \in 0..MaxPlainDetections : \E f \in [1..n -> 1..MaxPlainFaces] :
        GetUntracked([i \in 1..n |-> TrackBox(f[i])], NoEyes)

NextPlain == TickPlain \/ GetPlain

SpecPlain == InitPlain /\ [][NextPlain]_vars

\* ----------------------------------------------------- no tracker: claims

\* C30: a get pass of an instance without a tracker completes without an
\* error and returns one Face per raw detection, in the detections' order.
C30_UntrackedGetReturnsFaces ==
    (frame.made /\ tracker = Tracker(FALSE))
        => /\ ~frame.raised
           /\ Len(frame.faces) = Len(frame.dets)
           /\ \A i \in DOMAIN frame.dets : frame.faces[i].bbox = frame.dets[i]

====
